---- MODULE Spec2Model ----
(***************************************************************************)
(* A model of IIS-Log2CSV.py: the log validator, the chunked CSV and XLSX  *)
(* writers, the per-file conversion and the batch / single-file drivers.   *)
(*                                                                         *)
(* A Python str is a sequence of one-character strings.  The literal text  *)
(* of a marker or of an extension ("Fields", "log", "csv", ...) is kept as *)
(* one element: none of them holds a '#', a '.', a ',' or whitespace, so   *)
(* every test the code makes on a string has the same answer.              *)
(* A line is modelled without its line break, which str.strip() removes    *)
(* and no test of the code looks at.                                       *)
(***************************************************************************)
EXTENDS Integers, Sequences, FiniteSets, TLC

VARIABLES
    file_lines,         \* the lines of the source log file
    readable,           \* FALSE: open(file_path) raises (missing, a directory, not UTF-8)
    output_format,      \* the output_format argument
    pc,                 \* position of the conversion in convert_log_to_output
    headers,            \* validate_log_data: headers
    log_lines,          \* validate_log_data: log_lines
    pos,                \* position of log_line_generator in log_lines
    chunk,              \* the writers' chunk
    sheet_number,       \* write_to_excel: sheet_number
    current_row_count,  \* write_to_excel: current_row_count
    book,               \* the workbook the ExcelWriter holds in memory
    dest,               \* the file at destination_file
    error,              \* the reason logged by logging.error, "" when none
    mode,               \* batch: "file" (--file) or "folder" (--folder)
    tree,               \* batch: the source files, each path with the lines of its file
    recurse,            \* batch: --recurse
    src_arg,            \* batch: the --file or --folder path
    out_arg,            \* batch: the --output or --output-folder path, <<>> when not given
    mpc,                \* batch: position of main()
    tasks,              \* batch: the args tuples handed to convert_log_to_output
    tpc,                \* batch: position of each task's conversion
    fs                  \* batch: the destination file system

convVars == <<file_lines, readable, pc, headers, log_lines, pos, chunk,
              sheet_number, current_row_count, book, dest, error>>
batchVars == <<mode, tree, recurse, src_arg, out_arg, mpc, tasks, tpc, fs>>
vars == <<convVars, output_format, batchVars>>

----------------------------------------------------------------------------
(* Constants of the program, scaled down so that every case of the real    *)
(* values happens within a few rows: as with 10,000 and 1,048,576 the chunk *)
(* size is smaller than the row limit, the limit is more than twice the    *)
(* chunk size and it is not a multiple of it.                              *)
CHUNK_SIZE == 2
EXCEL_ROW_LIMIT == 5

(* Bounds of the model. *)
MaxLines == 3
MaxRows == 11
MaxFiles == 3

----------------------------------------------------------------------------
(* str methods *)
TAB == "\t"
Whitespace == {" ", TAB}

Max(a, b) == IF a >= b THEN a ELSE b

RECURSIVE LStrip(_)
LStrip(s) ==
    IF Len(s) > 0 /\ Head(s) \in Whitespace THEN LStrip(Tail(s)) ELSE s

RECURSIVE RStrip(_)
RStrip(s) ==
    IF Len(s) > 0 /\ s[Len(s)] \in Whitespace
    THEN RStrip(SubSeq(s, 1, Len(s) - 1))
    ELSE s

\* str.strip()
Strip(s) == RStrip(LStrip(s))

\* str.split(sep) with a one-character separator: empty pieces are kept
RECURSIVE SplitOn(_, _)
SplitOn(s, sep) ==
    IF \E i \in 1..Len(s) : s[i] = sep
    THEN LET i == CHOOSE k \in 1..Len(s) :
                      s[k] = sep /\ \A j \in 1..(k - 1) : s[j] # sep
         IN  <<SubSeq(s, 1, i - 1)>> \o SplitOn(SubSeq(s, i + 1, Len(s)), sep)
    ELSE <<s>>

\* str.split(): pieces between runs of whitespace, no empty piece
RECURSIVE SplitWs(_)
SplitWs(s) ==
    LET t == LStrip(s)
    IN  IF Len(t) = 0 THEN <<>>
        ELSE LET stops == {k \in 1..Len(t) : t[k] \in Whitespace}
                 n == IF stops = {} THEN Len(t) + 1
                      ELSE CHOOSE k \in stops : \A j \in stops : k <= j
             IN  <<SubSeq(t, 1, n - 1)>> \o SplitWs(SubSeq(t, n, Len(t)))

\* sep.join(parts)
RECURSIVE Join(_, _)
Join(parts, sep) ==
    IF Len(parts) = 0 THEN <<>>
    ELSE IF Len(parts) = 1 THEN parts[1]
    ELSE parts[1] \o <<sep>> \o Join(Tail(parts), sep)

\* str.lower() on the format names the model uses
Lower(f) ==
    CASE f = "CSV" -> "csv"
      [] f = "XLSX" -> "xlsx"
      [] OTHER -> f

StartsWithFields(line) == Len(line) >= 2 /\ line[1] = "#" /\ line[2] = "Fields"
StartsWithHash(line) == Len(line) >= 1 /\ line[1] = "#"

----------------------------------------------------------------------------
(* validate_log_data *)

\* the loop over the lines of the file; headers = None is the empty list,
\* which "not headers" does not tell apart
RECURSIVE ScanLines(_, _, _)
ScanLines(lines, hs, ls) ==
    IF Len(lines) = 0 THEN [headers |-> hs, log_lines |-> ls]
    ELSE LET line == Head(lines)
         IN  IF StartsWithFields(line)
             THEN ScanLines(Tail(lines), Tail(SplitOn(Strip(line), " ")), ls)
             ELSE IF ~StartsWithHash(line) /\ Len(Strip(line)) > 0
             THEN ScanLines(Tail(lines), hs, Append(ls, Strip(line)))
             ELSE ScanLines(Tail(lines), hs, ls)

\* a plausible slip: the two checks after the loop in the other order
validate_log_data_empty_first(lines) ==
    LET s == ScanLines(lines, <<>>, <<>>)
    IN  IF Len(s.log_lines) = 0
        THEN [error |-> "No valid data lines found", headers |-> <<>>, log_lines |-> <<>>]
        ELSE IF Len(s.headers) = 0
        THEN [error |-> "No #Fields line found", headers |-> <<>>, log_lines |-> <<>>]
        ELSE [error |-> "", headers |-> s.headers, log_lines |-> s.log_lines]

validate_log_data(lines) ==
    LET s == ScanLines(lines, <<>>, <<>>)
    IN  IF Len(s.headers) = 0
        THEN [error |-> "No #Fields line found", headers |-> <<>>, log_lines |-> <<>>]
        ELSE IF Len(s.log_lines) = 0
        THEN [error |-> "No valid data lines found", headers |-> <<>>, log_lines |-> <<>>]
        ELSE [error |-> "", headers |-> s.headers, log_lines |-> s.log_lines]

----------------------------------------------------------------------------
(* The destination file.  A text file is the sequence of its lines (every  *)
(* write of write_to_csv ends with a line break); a workbook is the        *)
(* sequence of its sheets in creation order, a sheet being its name (n for *)
(* "Sheet{n}") and its rows, the header row first.                         *)
NoFile == [state |-> "absent", text |-> <<>>, sheets |-> <<>>]
OldFile == [state |-> "old", text |-> <<>>, sheets |-> <<>>]
\* open(destination_file, "w") and the ExcelWriter's handle both truncate
Truncated == [state |-> "written", text |-> <<>>, sheets |-> <<>>]

\* one line of the CSV body: ",".join(line.split())
CsvRow(line) == Join(SplitWs(line), ",")

\* out_file.write("\n".join(chunk) + "\n")
WriteChunk(d, ch) == [d EXCEPT !.text = @ \o ch]

(* pd.DataFrame(chunk, columns=headers): pandas pads the rows of a nested  *)
(* list to the longest one with None and raises ValueError unless that     *)
(* length is the number of columns.  None is the empty cell.               *)
NoneCell == <<>>
RowWidth(ch) ==
    CHOOSE w \in {Len(ch[i]) : i \in 1..Len(ch)} :
        \A i \in 1..Len(ch) : Len(ch[i]) <= w
DataFrameRaises(ch, columns) == RowWidth(ch) # Len(columns)
DataFrame(ch, columns) ==
    [i \in 1..Len(ch) |->
        [j \in 1..Len(columns) |->
            IF j <= Len(ch[i]) THEN ch[i][j] ELSE NoneCell]]

(* DataFrame.to_excel(writer, index=False, sheet_name=...) on a writer in  *)
(* its default mode "w": a sheet of that name already in the workbook is   *)
(* written again from its first row (startrow = 0), cells below the new    *)
(* rows are left as they were; otherwise the sheet is created.             *)
Overlay(old, new) ==
    [i \in 1..Max(Len(old), Len(new)) |-> IF i <= Len(new) THEN new[i] ELSE old[i]]

to_excel(b, sheet_name, columns, frame) ==
    IF \E i \in 1..Len(b) : b[i].name = sheet_name
    THEN LET i == CHOOSE k \in 1..Len(b) : b[k].name = sheet_name
         IN  [b EXCEPT ![i].rows = Overlay(@, <<columns>> \o frame)]
    ELSE Append(b, [name |-> sheet_name, rows |-> <<columns>> \o frame])

(* ExcelWriter.__exit__ saves the workbook, also when the block raised.    *)
(* openpyxl refuses to save a workbook without a sheet: the file stays as  *)
(* the handle left it, empty.                                              *)
SaveBook(d, b) == IF Len(b) = 0 THEN d ELSE [d EXCEPT !.sheets = b]

----------------------------------------------------------------------------
(* The writers as functions of the rows, for a run in which no write fails. *)

\* write_to_csv: the text written; the chunks follow one another in the
\* file, so the text is the header line and one line per row, CHUNK_SIZE
\* lines to a write
RECURSIVE CsvRun(_, _, _)
CsvRun(text, ch, lines) ==
    IF Len(lines) = 0
    THEN IF Len(ch) > 0 THEN text \o ch ELSE text
    ELSE LET c == Append(ch, CsvRow(Head(lines)))
         IN  IF Len(c) >= CHUNK_SIZE
             THEN CsvRun(text \o c, <<>>, Tail(lines))
             ELSE CsvRun(text, c, Tail(lines))
write_to_csv(columns, lines) == CsvRun(<<Join(columns, ",")>>, <<>>, lines)

\* write_to_excel, lines 62-64: the state of the loop
ExcelStart == [chunk |-> <<>>, sheet_number |-> 1, current_row_count |-> 0,
               book |-> <<>>, raised |-> FALSE]

\* write_to_excel, lines 66-75: one turn of the loop on one line
ExcelTurn(st, line, columns) ==
    LET ch == Append(st.chunk, SplitWs(line))
        n == st.current_row_count + 1
        flush == Len(ch) >= CHUNK_SIZE
    IN  IF flush /\ DataFrameRaises(ch, columns)
        THEN [st EXCEPT !.raised = TRUE]
        ELSE [chunk |-> IF flush THEN <<>> ELSE ch,
              book |-> IF flush
                       THEN to_excel(st.book, st.sheet_number, columns,
                                     DataFrame(ch, columns))
                       ELSE st.book,
              sheet_number |-> IF n >= EXCEL_ROW_LIMIT
                               THEN st.sheet_number + 1 ELSE st.sheet_number,
              current_row_count |-> IF n >= EXCEL_ROW_LIMIT THEN 0 ELSE n,
              raised |-> FALSE]

\* write_to_excel, lines 76-79: the flush after the loop
ExcelFinish(st, columns) ==
    IF Len(st.chunk) = 0 THEN st
    ELSE IF DataFrameRaises(st.chunk, columns)
    THEN [st EXCEPT !.raised = TRUE]
    ELSE [st EXCEPT !.book = to_excel(@, st.sheet_number, columns,
                                      DataFrame(st.chunk, columns))]

RECURSIVE ExcelRun(_, _, _)
ExcelRun(st, lines, columns) ==
    IF st.raised THEN st
    ELSE IF Len(lines) = 0 THEN ExcelFinish(st, columns)
    ELSE ExcelRun(ExcelTurn(st, Head(lines), columns), Tail(lines), columns)
write_to_excel(columns, lines) == ExcelRun(ExcelStart, lines, columns)

----------------------------------------------------------------------------
(* One conversion: convert_log_to_output on one file.                      *)

\* lines 87-100: the destination path is computed (see DestinationOf), the
\* file is validated and the writer is chosen
Validate ==
    /\ pc = "start"
    /\ IF ~readable
       THEN /\ pc' = "failed"
            /\ error' = "cannot open the log file"
            /\ UNCHANGED <<headers, log_lines>>
       ELSE LET r == validate_log_data(file_lines)
            IN  IF r.error # ""
                THEN /\ pc' = "failed"
                     /\ error' = r.error
                     /\ UNCHANGED <<headers, log_lines>>
                ELSE /\ headers' = r.headers
                     /\ log_lines' = r.log_lines
                     /\ IF Lower(output_format) = "csv"
                        THEN pc' = "csv_open" /\ error' = ""
                        ELSE IF Lower(output_format) = "xlsx"
                        THEN pc' = "xlsx_open" /\ error' = ""
                        ELSE pc' = "failed" /\ error' = "Unsupported output format"
    /\ UNCHANGED <<file_lines, readable, output_format, pos, chunk, sheet_number,
                   current_row_count, book, dest, batchVars>>

\* write_to_csv, lines 45-47; io is what the operating system does
CsvOpen ==
    /\ pc = "csv_open"
    /\ \E io \in {"ok", "open raises", "write raises"} :
         CASE io = "ok" ->
                /\ dest' = WriteChunk(Truncated, <<Join(headers, ",")>>)
                /\ pc' = "csv_loop"
                /\ error' = ""
           [] io = "open raises" ->
                /\ dest' = dest
                /\ pc' = "failed"
                /\ error' = "cannot open the destination"
           [] io = "write raises" ->
                /\ dest' = Truncated
                /\ pc' = "failed"
                /\ error' = "write failed"
    /\ chunk' = <<>>
    /\ pos' = 1
    /\ UNCHANGED <<file_lines, readable, output_format, headers, log_lines,
                   sheet_number, current_row_count, book, batchVars>>

\* write_to_csv, lines 48-52: one turn of the loop
CsvLoop ==
    /\ pc = "csv_loop"
    /\ pos <= Len(log_lines)
    /\ LET ch == Append(chunk, CsvRow(log_lines[pos]))
       IN  IF Len(ch) >= CHUNK_SIZE
           THEN \E ok \in BOOLEAN :
                  IF ok
                  THEN /\ dest' = WriteChunk(dest, ch)
                       /\ chunk' = <<>>
                       /\ pos' = pos + 1
                       /\ UNCHANGED <<pc, error>>
                  ELSE /\ pc' = "failed"
                       /\ error' = "write failed"
                       /\ UNCHANGED <<dest, chunk, pos>>
           ELSE /\ chunk' = ch
                /\ pos' = pos + 1
                /\ UNCHANGED <<dest, pc, error>>
    /\ UNCHANGED <<file_lines, readable, output_format, headers, log_lines,
                   sheet_number, current_row_count, book, batchVars>>

\* write_to_csv, lines 53-54, and line 102
CsvEnd ==
    /\ pc = "csv_loop"
    /\ pos > Len(log_lines)
    /\ IF Len(chunk) > 0
       THEN \E ok \in BOOLEAN :
              IF ok
              THEN dest' = WriteChunk(dest, chunk) /\ pc' = "done" /\ error' = ""
              ELSE dest' = dest /\ pc' = "failed" /\ error' = "write failed"
       ELSE dest' = dest /\ pc' = "done" /\ error' = ""
    /\ UNCHANGED <<file_lines, readable, output_format, headers, log_lines, pos,
                   chunk, sheet_number, current_row_count, book, batchVars>>

\* write_to_excel, lines 61-64
ExcelOpen ==
    /\ pc = "xlsx_open"
    /\ \E ok \in BOOLEAN :
         IF ok
         THEN dest' = Truncated /\ pc' = "xlsx_loop" /\ error' = ""
         ELSE dest' = dest /\ pc' = "failed" /\ error' = "cannot open the destination"
    /\ sheet_number' = 1
    /\ current_row_count' = 0
    /\ chunk' = <<>>
    /\ book' = <<>>
    /\ pos' = 1
    /\ UNCHANGED <<file_lines, readable, output_format, headers, log_lines, batchVars>>

\* the state of write_to_excel's loop held in the variables
ExcelState == [chunk |-> chunk, sheet_number |-> sheet_number,
               current_row_count |-> current_row_count, book |-> book,
               raised |-> FALSE]

\* write_to_excel, lines 65-75: one turn of the loop; when DataFrame raises,
\* the writer's __exit__ saves what the workbook holds
ExcelLoop ==
    /\ pc = "xlsx_loop"
    /\ pos <= Len(log_lines)
    /\ LET st == ExcelTurn(ExcelState, log_lines[pos], headers)
       IN  IF st.raised
           THEN /\ dest' = SaveBook(dest, book)
                /\ pc' = "failed"
                /\ error' = "columns passed, passed data had other columns"
                /\ UNCHANGED <<chunk, book, pos, sheet_number, current_row_count>>
           ELSE /\ chunk' = st.chunk
                /\ book' = st.book
                /\ sheet_number' = st.sheet_number
                /\ current_row_count' = st.current_row_count
                /\ pos' = pos + 1
                /\ UNCHANGED <<dest, pc, error>>
    /\ UNCHANGED <<file_lines, readable, output_format, headers, log_lines, batchVars>>

\* write_to_excel, lines 76-79, the writer's __exit__, and line 102
ExcelEnd ==
    /\ pc = "xlsx_loop"
    /\ pos > Len(log_lines)
    /\ LET st == ExcelFinish(ExcelState, headers)
       IN  IF st.raised
           THEN /\ dest' = SaveBook(dest, book)
                /\ pc' = "failed"
                /\ error' = "columns passed, passed data had other columns"
                /\ UNCHANGED book
           ELSE /\ book' = st.book
                /\ \E ok \in BOOLEAN :
                     IF ok
                     THEN dest' = SaveBook(dest, st.book) /\ pc' = "done" /\ error' = ""
                     ELSE dest' = dest /\ pc' = "failed" /\ error' = "write failed"
    /\ UNCHANGED <<file_lines, readable, output_format, headers, log_lines, pos,
                   chunk, sheet_number, current_row_count, batchVars>>

----------------------------------------------------------------------------
(* The log files the conversion is run on. *)

\* lines a log file may hold
FieldsAB == <<"#", "Fields", " ", "a", " ", "b">>   \* "#Fields a b"
FieldsNone == <<"#", "Fields">>                      \* "#Fields"
Comment == <<"#", "x">>                              \* "#x"
Blank == <<" ">>                                     \* " "
Row12 == <<"1", " ", TAB, "2">>                      \* "1 \t2"
RowComma == <<"1", ",", "2", " ", "3">>              \* "1,2 3"
Row1 == <<"1">>                                      \* "1"
Indented == <<" ", "#", "x">>                        \* " #x"
LineSet == {FieldsAB, FieldsNone, Comment, Blank, Row12, RowComma, Row1, Indented}

\* every file of at most MaxLines of these lines
ShortDocs == UNION {[1..n -> LineSet] : n \in 0..MaxLines}

\* "#Fields a" and n rows "1", "2", ..., the row numbered bad (if any) with
\* a second token
LongDoc(n, bad) ==
    <<<<"#", "Fields", " ", "a">>>> \o
    [k \in 1..n |-> IF k = bad THEN <<ToString(k), " ", "x">> ELSE <<ToString(k)>>]
LongDocs == {LongDoc(n, bad) : n \in 1..MaxRows, bad \in {0, 3}}

Formats == {"csv", "XLSX", "txt"}

BatchIdle ==
    /\ mode = "none"
    /\ tree = {}
    /\ recurse = FALSE
    /\ src_arg = <<>>
    /\ out_arg = <<>>
    /\ mpc = "none"
    /\ tasks = {}
    /\ tpc = <<>>
    /\ fs = <<>>

Init ==
    /\ file_lines \in ShortDocs \cup LongDocs
    /\ readable \in BOOLEAN
    /\ readable = FALSE => file_lines = <<>>
    /\ output_format \in Formats
    /\ dest \in {NoFile, OldFile}
    /\ pc = "start"
    /\ headers = <<>>
    /\ log_lines = <<>>
    /\ pos = 1
    /\ chunk = <<>>
    /\ sheet_number = 1
    /\ current_row_count = 0
    /\ book = <<>>
    /\ error = ""
    /\ BatchIdle

Next ==
    \/ Validate
    \/ CsvOpen
    \/ CsvLoop
    \/ CsvEnd
    \/ ExcelOpen
    \/ ExcelLoop
    \/ ExcelEnd

Spec == Init /\ [][Next]_vars

----------------------------------------------------------------------------
(* Properties of one conversion. *)

Scanned == ScanLines(file_lines, <<>>, <<>>)
\* the token rows R of the file
TokenRows == [k \in 1..Len(log_lines) |-> SplitWs(log_lines[k])]
AllRowsFit == \A k \in 1..Len(log_lines) : Len(TokenRows[k]) = Len(headers)
CeilDiv(n, d) == (n + d - 1) \div d

RECURSIVE DataRowsOf(_)
DataRowsOf(b) == IF Len(b) = 0 THEN <<>> ELSE Tail(b[1].rows) \o DataRowsOf(Tail(b))

\* the rows a step of write_to_excel hands to to_excel, and their positions
FlushedChunk == IF pos <= Len(log_lines) THEN Append(chunk, SplitWs(log_lines[pos])) ELSE chunk
FlushedFrom == pos - Len(chunk)
FlushedTo == IF pos <= Len(log_lines) THEN pos ELSE pos - 1

\* C1: for a valid document the CSV output is the header line, the field
\* names joined by ',', followed by one line per row which, split on ',',
\* gives back the row's tokens, in the original order.
C1_CsvRoundTrip ==
    (pc = "done" /\ Lower(output_format) = "csv" /\ AllRowsFit) =>
        /\ Len(dest.text) = 1 + Len(log_lines)
        /\ dest.text[1] = Join(headers, ",")
        /\ \A k \in 1..Len(log_lines) : SplitOn(dest.text[k + 1], ",") = TokenRows[k]

\* C2: for more rows than EXCEL_ROW_LIMIT the workbook has
\* ceil(len(R) / EXCEL_ROW_LIMIT) sheets Sheet1, Sheet2, ..., none with more
\* than EXCEL_ROW_LIMIT data rows, and the data rows of the sheets in sheet
\* order are R.
C2_SheetsReproduceRows ==
    (pc = "done" /\ Lower(output_format) = "xlsx" /\ AllRowsFit
        /\ Len(log_lines) > EXCEL_ROW_LIMIT) =>
        /\ Len(dest.sheets) = CeilDiv(Len(log_lines), EXCEL_ROW_LIMIT)
        /\ \A i \in 1..Len(dest.sheets) :
              /\ dest.sheets[i].name = i
              /\ Len(dest.sheets[i].rows) - 1 <= EXCEL_ROW_LIMIT
        /\ DataRowsOf(dest.sheets) = TokenRows

\* C3: a flush to a sheet that already holds rows puts its rows after them:
\* the sheet afterwards is its old rows (the header row first) followed by
\* the flushed rows.
C3_FlushStep ==
    (pc = "xlsx_loop" /\ book' # book) =>
        \A i \in 1..Len(book) :
            book[i].name = sheet_number =>
                book'[i].rows = book[i].rows \o DataFrame(FlushedChunk, headers)
C3_FlushesAppend == [][C3_FlushStep]_vars

\* C4: a document with a retained row whose token count is not the number
\* of declared field names is rejected: its conversion fails, no writer is
\* run on it and no output file is produced for it.
MismatchingRows ==
    {k \in 1..Len(Scanned.log_lines) :
        Len(SplitWs(Scanned.log_lines[k])) # Len(Scanned.headers)}
C4_InconsistentRowsFail ==
    (readable /\ Len(Scanned.headers) > 0 /\ MismatchingRows # {}) =>
        /\ pc \in {"start", "failed"}
        /\ dest.state # "written"

\* C5 as stated: a document without a retained line fails with the
\* empty-data error whatever its field declaration is.
NoRetainedLine ==
    \A i \in 1..Len(file_lines) :
        StartsWithHash(file_lines[i]) \/ Len(Strip(file_lines[i])) = 0
C5_EmptyAlwaysEmptyDataError ==
    (pc # "start" /\ readable /\ NoRetainedLine) =>
        (pc = "failed" /\ error = "No valid data lines found")

\* C5 amended: a document without a retained line always fails; the error
\* is the empty-data error when the last #Fields line of the document names
\* at least one field, and the missing-#Fields error otherwise.
DeclaresFields ==
    \E i \in 1..Len(file_lines) :
        /\ StartsWithFields(file_lines[i])
        /\ \A j \in (i + 1)..Len(file_lines) : ~StartsWithFields(file_lines[j])
        /\ Len(SplitOn(Strip(file_lines[i]), " ")) > 1
C5_EmptyFails ==
    (pc # "start" /\ readable /\ NoRetainedLine) =>
        /\ pc = "failed"
        /\ dest.state # "written"
        /\ error = IF DeclaresFields THEN "No valid data lines found"
                   ELSE "No #Fields line found"
C5_Witness ==
    /\ pc = "failed"
    /\ readable
    /\ NoRetainedLine
    /\ DeclaresFields
    /\ Len(file_lines) > 1
    /\ error = "No valid data lines found"

\* C7: after a conversion that ended in a reported failure the destination
\* file is absent or, if it was there before, as it was.
C7_NoOutputOnFailure == pc = "failed" => dest.state # "written"

\* C10: every row a flush writes goes to the sheet of its position: row k
\* to Sheet{ceil(k / EXCEL_ROW_LIMIT)}.
C10_FlushStep ==
    (pc = "xlsx_loop" /\ book' # book) =>
        \A k \in FlushedFrom..FlushedTo : CeilDiv(k, EXCEL_ROW_LIMIT) = sheet_number
C10_RowsInTheirSheet == [][C10_FlushStep]_vars

\* the step-by-step writers end with what the writers' functions give
WritersAgree ==
    pc = "done" =>
        IF Lower(output_format) = "csv"
        THEN dest.text = write_to_csv(headers, log_lines)
        ELSE dest.sheets = write_to_excel(headers, log_lines).book

----------------------------------------------------------------------------
(* pathlib.  A path is the sequence of its names, a name a string.         *)

Parent(p) == SubSeq(p, 1, Len(p) - 1)
NameOf(p) == p[Len(p)]
IsPrefix(q, p) == Len(q) <= Len(p) /\ SubSeq(p, 1, Len(q)) = q
\* PurePath.relative_to(base), for a base that is a prefix of the path
relative_to(p, base) == SubSeq(p, Len(base) + 1, Len(p))

\* PurePath.suffix: from the last '.', unless the name starts or ends there
SuffixOf(name) ==
    LET dots == {i \in 1..Len(name) : name[i] = "."}
    IN  IF dots = {} THEN <<>>
        ELSE LET i == CHOOSE k \in dots : \A j \in dots : j <= k
             IN  IF 1 < i /\ i < Len(name) THEN SubSeq(name, i, Len(name)) ELSE <<>>

\* PurePath.with_suffix(suffix)
with_suffix(p, suffix) ==
    LET name == NameOf(p)
        old == SuffixOf(name)
    IN  IF Len(old) = 0
        THEN Append(Parent(p), name \o suffix)
        ELSE Append(Parent(p), SubSeq(name, 1, Len(name) - Len(old)) \o suffix)

\* the pattern "*.log" of glob and rglob
MatchesLog(name) ==
    Len(name) >= 2 /\ name[Len(name) - 1] = "." /\ name[Len(name)] = "log"

\* convert_log_to_output, lines 88-90
DestinationOf(t) ==
    with_suffix(t.destination_dir \o relative_to(t.log_file, t.source_dir),
                <<".", Lower(t.output_format)>>)

----------------------------------------------------------------------------
(* The source tree and the destination file system. *)

\* Path.exists(): a file of the tree or a directory above one
Exists(p) == \E f \in DOMAIN tree : IsPrefix(p, f)
IsSourceFile(p) == p \in DOMAIN tree

\* source_dir.rglob("*.log") / source_dir.glob("*.log"): files and
\* directories alike
EntriesUnder(dir) ==
    UNION {{SubSeq(f, 1, k) : k \in (Len(dir) + 1)..Len(f)} :
              f \in {g \in DOMAIN tree : IsPrefix(dir, g)}}
DiscoveredLogs(dir, rec) ==
    {e \in EntriesUnder(dir) :
        MatchesLog(NameOf(e)) /\ (rec \/ Len(e) = Len(dir) + 1)}

DirEntry == [kind |-> "dir", content |-> <<>>]
FileEntry(c) == [kind |-> "file", content |-> c]
IsDir(f, p) == p \in DOMAIN f /\ f[p].kind = "dir"
IsFile(f, p) == p \in DOMAIN f /\ f[p].kind = "file"
Prefixes(p) == {SubSeq(p, 1, k) : k \in 1..Len(p)}

\* Path.mkdir(parents=True, exist_ok=True)
MkdirRaises(f, d) == \E q \in Prefixes(d) : IsFile(f, q)
Mkdir(f, d) ==
    [q \in DOMAIN f \cup Prefixes(d) |-> IF q \in DOMAIN f THEN f[q] ELSE DirEntry]

\* opening a path for writing creates or truncates the file
OpenRaises(f, p) == IsDir(f, p)
OpenForWriting(f, p) ==
    [q \in DOMAIN f \cup {p} |-> IF q = p THEN FileEntry(<<>>) ELSE f[q]]
\* a handle opened for writing writes from the start of the file, over
\* whatever another handle wrote there
WriteFile(f, p, c) == [f EXCEPT ![p] = FileEntry(Overlay(@.content, c))]

\* what a conversion writes for a file
Converted(lines, format) ==
    LET r == validate_log_data(lines)
    IN  IF Lower(format) = "csv"
        THEN [raised |-> FALSE, content |-> write_to_csv(r.headers, r.log_lines)]
        ELSE LET st == write_to_excel(r.headers, r.log_lines)
             IN  [raised |-> st.raised, content |-> st.book]

----------------------------------------------------------------------------
(* main(), process_folder and the pool of process_log_files_parallel.  Every *)
(* queued conversion is run by some worker of the pool; the workers run in  *)
(* any order and any number of them at a time.  The operating system fails  *)
(* no read or write here: a conversion fails only for what the files are.   *)

Args(file, sdir, ddir) ==
    [log_file |-> file, source_dir |-> sdir, destination_dir |-> ddir,
     output_format |-> output_format]

\* main, lines 147-158
MainFile ==
    /\ mode = "file"
    /\ mpc = "start"
    /\ IF ~Exists(src_arg) \/ Len(out_arg) = 0
       THEN /\ mpc' = "done"
            /\ UNCHANGED <<tasks, tpc>>
       ELSE LET t == Args(src_arg, Parent(src_arg), Parent(out_arg))
            IN  /\ tasks' = {t}
                /\ tpc' = [x \in {t} |-> "queued"]
                /\ mpc' = "running"
    /\ UNCHANGED <<convVars, output_format, mode, tree, recurse, src_arg, out_arg, fs>>

\* main, lines 160-171, process_folder and lines 111-113
MainFolder ==
    /\ mode = "folder"
    /\ mpc = "start"
    /\ IF ~Exists(src_arg) \/ Len(out_arg) = 0
          \/ DiscoveredLogs(src_arg, recurse) = {}
       THEN /\ mpc' = "done"
            /\ UNCHANGED <<tasks, tpc>>
       ELSE LET ts == {Args(f, src_arg, out_arg) : f \in DiscoveredLogs(src_arg, recurse)}
            IN  /\ tasks' = ts
                /\ tpc' = [x \in ts |-> "queued"]
                /\ mpc' = "running"
    /\ UNCHANGED <<convVars, output_format, mode, tree, recurse, src_arg, out_arg, fs>>

\* convert_log_to_output, lines 88-93 and the choice of the writer
TaskStart(t) ==
    /\ mpc = "running"
    /\ tpc[t] = "queued"
    /\ LET d == Parent(DestinationOf(t))
       IN  IF MkdirRaises(fs, d)
           THEN fs' = fs /\ tpc' = [tpc EXCEPT ![t] = "failed"]
           ELSE /\ fs' = Mkdir(fs, d)
                /\ IF ~IsSourceFile(t.log_file)
                      \/ validate_log_data(tree[t.log_file]).error # ""
                      \/ Lower(t.output_format) \notin {"csv", "xlsx"}
                   THEN tpc' = [tpc EXCEPT ![t] = "failed"]
                   ELSE tpc' = [tpc EXCEPT ![t] = "validated"]
    /\ UNCHANGED <<convVars, output_format, mode, tree, recurse, src_arg, out_arg,
                   mpc, tasks>>

\* line 45 of write_to_csv, line 61 of write_to_excel
TaskOpen(t) ==
    /\ mpc = "running"
    /\ tpc[t] = "validated"
    /\ IF OpenRaises(fs, DestinationOf(t))
       THEN fs' = fs /\ tpc' = [tpc EXCEPT ![t] = "failed"]
       ELSE /\ fs' = OpenForWriting(fs, DestinationOf(t))
            /\ tpc' = [tpc EXCEPT ![t] = "open"]
    /\ UNCHANGED <<convVars, output_format, mode, tree, recurse, src_arg, out_arg,
                   mpc, tasks>>

\* the rest of the writer, and line 102
TaskWrite(t) ==
    /\ mpc = "running"
    /\ tpc[t] = "open"
    /\ LET c == Converted(tree[t.log_file], t.output_format)
       IN  /\ fs' = WriteFile(fs, DestinationOf(t), c.content)
           /\ tpc' = [tpc EXCEPT ![t] = IF c.raised THEN "failed" ELSE "done"]
    /\ UNCHANGED <<convVars, output_format, mode, tree, recurse, src_arg, out_arg,
                   mpc, tasks>>

\* the executor's with block ends when every conversion has returned;
\* main, lines 173-174
MainEnd ==
    /\ mpc = "running"
    /\ \A t \in tasks : tpc[t] \in {"done", "failed"}
    /\ mpc' = "done"
    /\ UNCHANGED <<convVars, output_format, mode, tree, recurse, src_arg, out_arg,
                   tasks, tpc, fs>>

----------------------------------------------------------------------------
(* The runs of the batch model. *)

Dir(n) == <<n>>
SourceRoot == <<Dir("root")>>
OutRoot == <<Dir("out")>>
XLog == <<"x", ".", "log">>
YLog == <<"y", ".", "log">>
DotLog == <<".", "log">>
DotLogLog == <<".", "log", ".", "log">>
\* files that may be under the source folder, relative to it
CandidateFiles ==
    { <<XLog>>, <<DotLog>>, <<DotLogLog>>, <<Dir("sub"), YLog>>,
      <<<<"x", ".", "csv">>, YLog>>, <<<<"d", ".", "log">>, YLog>>,
      <<<<"x", ".", "txt">>>> }
\* --output paths of single-file mode
OutputArgs ==
    { <<Dir("out"), <<"x", ".", "csv">>>>, <<Dir("out"), <<"r", ".", "csv">>>>,
      <<<<"x", ".", "xlsx">>>>, <<<<"x", ".", "txt">>>> }

RECURSIVE PathText(_)
PathText(p) ==
    IF Len(p) = 0 THEN <<>>
    ELSE IF Len(p) = 1 THEN p[1]
    ELSE p[1] \o <<"/">> \o PathText(Tail(p))
\* a valid log whose one row names the file, and a log without #Fields
GoodLog(rel) == <<<<"#", "Fields", " ", "a">>, PathText(rel)>>
BadLog == <<<<"1">>>>
Valid(lines) == validate_log_data(lines).error = ""

Trees(max) ==
    UNION {[{SourceRoot \o rel : rel \in S} ->  {"good", "bad"}] :
              S \in {T \in SUBSET CandidateFiles : Cardinality(T) <= max}}
TreeOf(kinds) ==
    [f \in DOMAIN kinds |->
        IF kinds[f] = "good" THEN GoodLog(relative_to(f, SourceRoot)) ELSE BadLog]

InitBatch ==
    /\ file_lines = <<>>
    /\ readable = TRUE
    /\ pc = "none"
    /\ headers = <<>>
    /\ log_lines = <<>>
    /\ pos = 1
    /\ chunk = <<>>
    /\ sheet_number = 1
    /\ current_row_count = 0
    /\ book = <<>>
    /\ dest = NoFile
    /\ error = ""
    /\ output_format \in {"csv", "xlsx"}
    /\ mode \in {"file", "folder"}
    /\ \E kinds \in Trees(IF mode = "file" THEN 1 ELSE MaxFiles) : tree = TreeOf(kinds)
    /\ IF mode = "file"
       THEN /\ src_arg \in {SourceRoot \o rel : rel \in CandidateFiles}
                           \cup {SourceRoot \o <<<<"d", ".", "log">>>>}
            /\ out_arg \in OutputArgs \cup {<<>>}
            /\ recurse = FALSE
       ELSE /\ src_arg \in {SourceRoot, <<Dir("nowhere")>>}
            /\ out_arg \in {OutRoot, <<>>}
            /\ recurse \in BOOLEAN
    /\ mpc = "start"
    /\ tasks = {}
    /\ tpc = <<>>
    /\ fs = <<>>

NextBatch ==
    \/ MainFile
    \/ MainFolder
    \/ \E t \in tasks : TaskStart(t)
    \/ \E t \in tasks : TaskOpen(t)
    \/ \E t \in tasks : TaskWrite(t)
    \/ MainEnd

SpecBatch == InitBatch /\ [][NextBatch]_vars

----------------------------------------------------------------------------
(* Properties of the batch and single-file runs. *)

ValidLog(t) == IsSourceFile(t.log_file) /\ Valid(tree[t.log_file])
OutputWritten(t, path) ==
    /\ IsFile(fs, path)
    /\ fs[path].content = Converted(tree[t.log_file], t.output_format).content

\* C6: when a batch run over a folder has ended, every valid file among the
\* discovered ones has been converted and its output is at its destination,
\* whatever happened to the other files and in whatever order the workers
\* ran.
C6_ValidFilesConverted ==
    (mode = "folder" /\ mpc = "done") =>
        \A t \in tasks :
            ValidLog(t) => (tpc[t] = "done" /\ OutputWritten(t, DestinationOf(t)))

\* C8: in a batch run a file's destination is under the destination root
\* at the file's relative directory, its name ending with the extension of
\* the format; two discovered files never have the same destination, and
\* no two workers have the same destination file open for writing.
C8_DistinctDestinations ==
    mode = "folder" =>
        /\ \A t \in tasks :
              LET d == DestinationOf(t)
                  rel == relative_to(t.log_file, t.source_dir)
              IN  /\ Parent(d) = t.destination_dir \o Parent(rel)
                  /\ SubSeq(NameOf(d), Len(NameOf(d)) - 1, Len(NameOf(d)))
                        = <<".", t.output_format>>
        /\ \A t1, t2 \in tasks :
              t1 # t2 =>
                /\ DestinationOf(t1) # DestinationOf(t2)
                /\ ~(tpc[t1] = "open" /\ tpc[t2] = "open"
                        /\ DestinationOf(t1) = DestinationOf(t2))

\* C9: in single-file mode a successful conversion leaves the converted
\* output at the path given as --output.
C9_OutputAtGivenPath ==
    (mode = "file" /\ mpc = "done") =>
        \A t \in tasks : tpc[t] = "done" => OutputWritten(t, out_arg)

====
